---------------------------- MODULE Spec2Model ----------------------------
(***************************************************************************)
(* A model of cropper.js: the Uploader (file input -> promise of a data    *)
(* URI) and the Cropper (crop rectangle driven by mouse gestures on a      *)
(* canvas).  The repository holds two source files that each define both   *)
(* components: src/cropper.js (class Uploader followed by the prototype    *)
(* based Cropper, version 1.0.0) and src/unnamed/part_000 (class Uploader  *)
(* and class Cropper, version 2.0.0).  The variable build says which file  *)
(* the page loaded.                                                        *)
(***************************************************************************)
EXTENDS Integers, Sequences, FiniteSets, TLC

VARIABLES
  build,          \* "v1" = src/cropper.js, "v2" = src/unnamed/part_000
  \* ---- Cropper ----
  editor,         \* what new Cropper(options) left the caller with
  exported,       \* the src that Cropper.export gave to the img element
  limit,          \* this.limit (v2); v1 uses the local maxSide
  crop,           \* this.crop = [size, tl, br]
  lastEvent,      \* this.lastEvent: NoEvent or [position, resizing, moving]
  image,          \* this.image: [set, nat, width, height, state]
  loading,        \* number of replaced Images whose load event is still to come
  nloads,         \* number of setImageSource calls so far
  canvas,         \* this.imageCanvas: [width, height]
  preview,        \* this.previewCanvas: [width, height, content]
  downListeners,  \* number of mousedown handlers on the canvas
  bound,          \* generation of this.boundDrag / this.boundClickStop
  moveListeners,  \* generations of boundDrag attached for mousemove
  upListeners,    \* generations of boundClickStop attached for mouseup
  \* ---- history of the Cropper's events (not program state) ----
  ev,             \* the last event and what its handler did; pos is the
                  \* pointer position of a mousemove that a listener handled
  phase,          \* "idle", "down" (after a pointer-down), "up"
  gesture,        \* where the last pointer-down fell: [zone, body]
  \* ---- Uploader ----
  uploader,       \* what new Uploader(options) left the caller with
  types,          \* this.types
  files,          \* this.fileInput.files
  nlisten,        \* number of listen() calls so far
  promise,        \* promise of each listen() call: [state, value, settled]
  onchange,       \* this.fileInput.onchange: 0 or the listen() call it serves
  reader,         \* this.reader: [state, file, onload]
  uev             \* the last Uploader event and what its handler did

cvars == <<editor, exported, limit, crop, lastEvent, image, loading, nloads, canvas, preview,
           downListeners, bound, moveListeners, upListeners, ev, phase, gesture>>
uvars == <<uploader, types, files, nlisten, promise, onchange, reader, uev>>
vars == <<build, cvars, uvars>>

-----------------------------------------------------------------------------
(* Program constants *)
errorOffset == 10
maxSide == 600
defaultLimit == 600

(* Bounds of the model *)

\* pitch of the grid the pointer coordinates are drawn from: the handle zone
\* reaches exactly to the neighbouring grid points
Step == errorOffset
\* the pointer's x is one of 0, Step, ..., GridW * Step
GridW == 2
\* the pointer's y is one of 0, Step, ..., GridH * Step
GridH == GridW - 1
\* number of setImageSource calls
MaxLoads == 2
\* number of Uploader.listen calls
MaxListens == 2


Builds == {"v1", "v2"}

Pt(x, y) == [x |-> x, y |-> y]
Dim(w, h) == [width |-> w, height |-> h]

Points == {Pt(i * Step, j * Step) : i \in 0..GridW, j \in 0..GridH}
\* options.size: a square target and a non-square one
TargetSizes == {Dim(Step, Step), Dim(2 * Step, Step)}
\* natural sizes of the images given to setImageSource
ImageSizes == {Dim(GridW * Step, GridH * Step), Dim(Step, Step)}
\* options.limit: absent (0, falsy) or a small limit
LimitOptions == {0, (GridW - 1) * Step}

NoEvent == [position |-> Pt(-1, -1), resizing |-> FALSE, moving |-> FALSE, set |-> FALSE]

\* a canvas element that the page gave no width/height (README.md example)
InitialCanvas == Dim(300, 150)

Abs(n) == IF n < 0 THEN -n ELSE n

-----------------------------------------------------------------------------
(* Cropper: geometry *)

\* Cropper.inBounds, against the canvas cv
inBounds(cv, x, y) ==
  x >= 0 /\ x <= cv.width /\ y >= 0 /\ y <= cv.height

\* Cropper.isResizing
isResizing(c, pos) ==
  LET handle == c.br
  IN ~(pos.x < handle.x - errorOffset \/ pos.x > handle.x + errorOffset \/
       pos.y < handle.y - errorOffset \/ pos.y > handle.y + errorOffset)

\* Cropper.isMoving
isMoving(c, pos) ==
  ~(pos.x < c.tl.x \/ pos.x > c.br.x \/ pos.y < c.tl.y \/ pos.y > c.br.y)

\* resizeAmount with the tie |dx| = |dy| given to dx
resizeAmount_tieToDx(dx, dy) == IF Abs(dx) >= Abs(dy) THEN dx ELSE dy

\* the amount Cropper.resize applies to both coordinates of the handle
resizeAmount(dx, dy) == IF Abs(dx) > Abs(dy) THEN dx ELSE dy

\* resize that clamps the handle to the canvas instead of dropping the delta
resize_clamped(c, cv, dx, dy) ==
  LET amount == resizeAmount(dx, dy)
      Clamp(v, hi) == IF v < 0 THEN 0 ELSE IF v > hi THEN hi ELSE v
  IN [c EXCEPT !.br = Pt(Clamp(c.br.x + amount, cv.width),
                         Clamp(c.br.y + amount, cv.height))]

\* Cropper.resize: the crop after resize(dx, dy)
resize(c, cv, dx, dy) ==
  LET handle == c.br
      amount == resizeAmount(dx, dy)
  IN IF inBounds(cv, handle.x + amount, handle.y + amount)
       THEN [c EXCEPT !.br = Pt(handle.x + amount, handle.y + amount)]
       ELSE c

\* the guard of Cropper.move: all four corners in bounds
moveAllowed(c, cv, dx, dy) ==
  /\ inBounds(cv, c.tl.x + dx, c.tl.y + dy)
  /\ inBounds(cv, c.br.x + dx, c.tl.y + dy)
  /\ inBounds(cv, c.br.x + dx, c.br.y + dy)
  /\ inBounds(cv, c.tl.x + dx, c.br.y + dy)

\* move that translates the top left corner and forgets the bottom right
move_topLeftOnly(c, cv, dx, dy) ==
  IF moveAllowed(c, cv, dx, dy)
    THEN [c EXCEPT !.tl = Pt(c.tl.x + dx, c.tl.y + dy)]
    ELSE c

\* Cropper.move: the crop after move(dx, dy)
move(c, cv, dx, dy) ==
  IF moveAllowed(c, cv, dx, dy)
    THEN [c EXCEPT !.tl = Pt(c.tl.x + dx, c.tl.y + dy),
                   !.br = Pt(c.br.x + dx, c.br.y + dy)]
    ELSE c

\* dragOp with the two tests of Cropper.drag in the other order
dragOp_moveFirst(le) ==
  IF le.moving THEN "move" ELSE IF le.resizing THEN "resize" ELSE "none"

\* dragOp without the case of a gesture that is neither a resize nor a move
dragOp_alwaysMove(le) ==
  IF le.resizing THEN "resize" ELSE "move"

\* which operation Cropper.drag dispatches to
dragOp(le) ==
  IF le.resizing THEN "resize" ELSE IF le.moving THEN "move" ELSE "none"

\* the crop after the dispatch of Cropper.drag
dragCrop(c, cv, le, dx, dy) ==
  IF dragOp(le) = "resize" THEN resize(c, cv, dx, dy)
  ELSE IF dragOp(le) = "move" THEN move(c, cv, dx, dy)
  ELSE c

-----------------------------------------------------------------------------
(* Cropper: rendering *)

\* this.image before the first setImageSource
NoImage == [set |-> FALSE, nat |-> Dim(0, 0), width |-> 0, height |-> 0,
            state |-> "none"]

\* the limit Cropper.displayImage compares with: the local maxSide in
\* src/cropper.js, this.limit in src/unnamed/part_000
sideLimit(b, lim) == IF b = "v1" THEN maxSide ELSE lim

\* Cropper.displayImage: the Image after the resize of the original.
\* width and height are unsigned long attributes: the product is truncated.
displayImage(img, lim) ==
  IF img.width > lim
    THEN [img EXCEPT !.height = (img.height * lim) \div img.width,
                     !.width = lim]
  ELSE IF img.height > lim
    THEN [img EXCEPT !.width = (img.width * lim) \div img.height,
                     !.height = lim]
  ELSE img

NoContent == [kind |-> "none", tl |-> Pt(0, 0), br |-> Pt(0, 0),
              surface |-> Dim(0, 0)]
BlankContent == [NoContent EXCEPT !.kind = "blank"]

\* Cropper.preview: the preview canvas after preview(), and whether it threw.
\* getImageData throws IndexSizeError for a zero width or height; drawImage
\* throws InvalidStateError for a source canvas with a zero side.
previewOf(c, cv, pv) ==
  IF c.br.x - c.tl.x = 0 \/ c.br.y - c.tl.y = 0
    THEN [preview |-> pv, threw |-> TRUE]
  ELSE IF cv.width = 0 \/ cv.height = 0
    THEN [preview |-> [width |-> c.size.width, height |-> c.size.height,
                       content |-> BlankContent],
          threw |-> TRUE]
  ELSE [preview |-> [width |-> c.size.width, height |-> c.size.height,
                     content |-> [kind |-> "crop", tl |-> c.tl, br |-> c.br,
                                  surface |-> cv]],
        threw |-> FALSE]

\* Cropper.render: displayImage, preview, drawCropWindow.
\* s = [crop, lastEvent, image, canvas, preview, threw]
render(s, b, lim) ==
  LET img == displayImage(s.image, sideLimit(b, lim))
      cv  == Dim(img.width, img.height)
      p   == previewOf(s.crop, cv, s.preview)
  IN [s EXCEPT !.image = img,
               !.canvas = cv,
               !.preview = p.preview,
               !.threw = p.threw]

\* drag that tests again, at every mousemove, where the pointer is
drag_hitTestsAgain(s, b, lim, pos) ==
  LET dx == pos.x - s.lastEvent.position.x
      dy == pos.y - s.lastEvent.position.y
      le == [s.lastEvent EXCEPT !.resizing = isResizing(s.crop, pos),
                                !.moving = isMoving(s.crop, pos)]
      c  == dragCrop(s.crop, s.canvas, le, dx, dy)
  IN render([s EXCEPT !.crop = c, !.lastEvent = [le EXCEPT !.position = pos]],
            b, lim)

\* drag that records the position of an applied delta only, so that the
\* next delta is measured from the last accepted position
drag_positionOnApply(s, b, lim, pos) ==
  LET dx == pos.x - s.lastEvent.position.x
      dy == pos.y - s.lastEvent.position.y
      c  == dragCrop(s.crop, s.canvas, s.lastEvent, dx, dy)
  IN render([s EXCEPT !.crop = c,
                      !.lastEvent.position = IF c = s.crop THEN @ ELSE pos],
            b, lim)

\* Cropper.drag, for a mousemove at pos
drag(s, b, lim, pos) ==
  LET dx == pos.x - s.lastEvent.position.x
      dy == pos.y - s.lastEvent.position.y
      c  == dragCrop(s.crop, s.canvas, s.lastEvent, dx, dy)
  IN render([s EXCEPT !.crop = c, !.lastEvent.position = pos], b, lim)

\* a mousemove event runs every attached drag listener
RECURSIVE dragAll(_, _, _, _, _)
dragAll(n, s, b, lim, pos) ==
  IF n = 0 THEN s ELSE dragAll(n - 1, drag(s, b, lim, pos), b, lim, pos)

\* Cropper.clickStart: this.lastEvent for a mousedown at pos
clickStart(c, pos) ==
  [position |-> pos, resizing |-> isResizing(c, pos),
   moving |-> isMoving(c, pos), set |-> TRUE]

State == [crop |-> crop, lastEvent |-> lastEvent, image |-> image,
          canvas |-> canvas, preview |-> preview, threw |-> FALSE]

Becomes(s) ==
  \E r \in {s} :
    /\ crop' = r.crop
    /\ lastEvent' = r.lastEvent
    /\ image' = r.image
    /\ canvas' = r.canvas
    /\ preview' = r.preview

-----------------------------------------------------------------------------
(* Cropper: construction and events *)

\* the history record of an event that is no mousemove
Other == [type |-> "other", op |-> "none", applied |-> FALSE,
          pos |-> NoEvent.position]

\* Cropper constructor
CropperInit ==
  /\ \E size \in TargetSizes :
       crop = [size |-> size, tl |-> Pt(0, 0),
               br |-> Pt(size.width, size.height)]
  /\ \E l \in (IF build = "v2" THEN LimitOptions ELSE {0}) :
       limit = IF l = 0 THEN defaultLimit ELSE l
  /\ editor = [state |-> "instance", missing |-> {}]
  /\ exported = NoContent
  /\ lastEvent = NoEvent
  /\ image = NoImage
  /\ loading = 0
  /\ nloads = 0
  /\ canvas = InitialCanvas
  /\ preview = [width |-> InitialCanvas.width, height |-> InitialCanvas.height,
                content |-> NoContent]
  /\ downListeners = 0
  /\ bound = 0
  /\ moveListeners = {}
  /\ upListeners = {}
  /\ ev = Other
  /\ phase = "idle"
  /\ gesture = [zone |-> FALSE, body |-> FALSE]

\* Cropper.setImageSource(source), source an image of natural size nat.
\* The new Image is not yet available: its width and height read 0.  The
\* Image it replaces keeps its load handler.
SetImageSource(nat) ==
  /\ nloads < MaxLoads
  /\ nloads' = nloads + 1
  /\ loading' = IF image.state = "loading" THEN loading + 1 ELSE loading
  /\ LET img == [set |-> TRUE, nat |-> nat, width |-> 0, height |-> 0,
                 state |-> "loading"]
         s   == [State EXCEPT !.image = img]
     IN Becomes(IF build = "v2" THEN render(s, build, limit) ELSE s)
  /\ ev' = Other
  /\ UNCHANGED <<build, editor, exported, limit, downListeners, bound, moveListeners,
                 upListeners, phase, gesture, uvars>>

\* Cropper.readyEditor, run on state s (the Image's load event has fired)
readyEditor(s) ==
  LET r == render(s, build, limit)
  IN /\ Becomes(r)
     /\ IF r.threw
          THEN UNCHANGED <<downListeners, bound>>
          ELSE /\ downListeners' = IF build = "v2" THEN 1
                                                   ELSE downListeners + 1
               /\ bound' = bound + 1

\* the load event of this.image.  On an object whose constructor returned
\* early (src/cropper.js) readyEditor throws TypeError at its first use of
\* this.imageCanvas or this.c, before it has changed anything.
ImageLoad ==
  /\ image.state = "loading"
  /\ LET s == [State EXCEPT !.image = [image EXCEPT !.state = "loaded",
                                                    !.width = image.nat.width,
                                                    !.height = image.nat.height]]
     IN IF editor.state = "partial"
          THEN Becomes(s) /\ UNCHANGED <<downListeners, bound>>
          ELSE readyEditor(s)
  /\ ev' = Other
  /\ UNCHANGED <<build, editor, exported, limit, loading, nloads, moveListeners, upListeners,
                 phase, gesture, uvars>>

\* the load event of an Image that setImageSource has replaced since
StaleImageLoad ==
  /\ loading > 0
  /\ loading' = loading - 1
  /\ IF editor.state = "partial"
       THEN Becomes(State) /\ UNCHANGED <<downListeners, bound>>
       ELSE readyEditor(State)
  /\ ev' = Other
  /\ UNCHANGED <<build, editor, exported, limit, nloads, moveListeners, upListeners, phase,
                 gesture, uvars>>

\* the handle zone and the body, as the pointer-down point sees them
InHandleZone(c, pos) ==
  Abs(pos.x - c.br.x) <= errorOffset /\ Abs(pos.y - c.br.y) <= errorOffset
InBody(c, pos) ==
  /\ c.tl.x <= pos.x /\ pos.x <= c.br.x
  /\ c.tl.y <= pos.y /\ pos.y <= c.br.y

\* a mousedown on the canvas at pos: every mousedown handler runs clickStart
MouseDown(pos) ==
  /\ IF downListeners > 0
       THEN /\ lastEvent' = clickStart(crop, pos)
            /\ moveListeners' = moveListeners \cup {bound}
            /\ upListeners' = upListeners \cup {bound}
       ELSE UNCHANGED <<lastEvent, moveListeners, upListeners>>
  /\ ev' = Other
  /\ phase' = "down"
  /\ gesture' = [zone |-> InHandleZone(crop, pos), body |-> InBody(crop, pos)]
  /\ UNCHANGED <<build, editor, exported, limit, crop, image, loading, nloads, canvas, preview,
                 downListeners, bound, uvars>>

\* whether the first drag listener's resize or move passes its guard
dragApplied(c, cv, le, dx, dy) ==
  IF dragOp(le) = "resize"
    THEN inBounds(cv, c.br.x + resizeAmount(dx, dy), c.br.y + resizeAmount(dx, dy))
  ELSE IF dragOp(le) = "move" THEN moveAllowed(c, cv, dx, dy)
  ELSE FALSE

\* a mousemove on the canvas at pos: every attached boundDrag runs drag
MouseMove(pos) ==
  /\ Becomes(dragAll(Cardinality(moveListeners), State, build, limit, pos))
  /\ ev' = IF moveListeners = {}
             THEN [type |-> "move", op |-> "unhandled", applied |-> FALSE,
                   pos |-> NoEvent.position]
             ELSE [type |-> "move", op |-> dragOp(lastEvent), pos |-> pos,
                   applied |-> dragApplied(crop, canvas, lastEvent,
                                           pos.x - lastEvent.position.x,
                                           pos.y - lastEvent.position.y)]
  /\ UNCHANGED <<build, editor, exported, limit, loading, nloads, downListeners, bound,
                 moveListeners, upListeners, phase, gesture, uvars>>

\* a mouseup on the canvas: every attached boundClickStop runs clickStop,
\* which removes the current boundDrag and boundClickStop
MouseUp ==
  /\ IF upListeners # {}
       THEN /\ moveListeners' = moveListeners \ {bound}
            /\ upListeners' = upListeners \ {bound}
       ELSE UNCHANGED <<moveListeners, upListeners>>
  /\ ev' = Other
  /\ phase' = IF phase = "down" THEN "up" ELSE phase
  /\ UNCHANGED <<build, editor, exported, limit, crop, lastEvent, image, loading, nloads,
                 canvas, preview, downListeners, bound, gesture, uvars>>

-----------------------------------------------------------------------------
(* Uploader *)

\* Strings are sequences of characters, so that split and toLowerCase are
\* computed and not assumed.
gif == <<"g", "i", "f">>
jpg == <<"j", "p", "g">>
jpeg == <<"j", "p", "e", "g">>
png == <<"p", "n", "g">>
imagetype == <<"i", "m", "a", "g", "e">>

UpperCase == <<"A", "B", "C", "D", "E", "F", "G", "H", "I", "J", "K", "L", "M",
               "N", "O", "P", "Q", "R", "S", "T", "U", "V", "W", "X", "Y", "Z">>
LowerCase == <<"a", "b", "c", "d", "e", "f", "g", "h", "i", "j", "k", "l", "m",
               "n", "o", "p", "q", "r", "s", "t", "u", "v", "w", "x", "y", "z">>

\* String.prototype.toLowerCase
toLowerCase(str) ==
  [i \in DOMAIN str |->
     IF \E k \in DOMAIN UpperCase : UpperCase[k] = str[i]
       THEN LowerCase[CHOOSE k \in DOMAIN UpperCase : UpperCase[k] = str[i]]
       ELSE str[i]]

\* str.split('/').pop(): what follows the last '/', the whole string if none
splitPop(str) ==
  LET slashes == {i \in DOMAIN str : str[i] = "/"}
  IN IF slashes = {} THEN str
     ELSE SubSeq(str, (CHOOSE i \in slashes : \A k \in slashes : k <= i) + 1,
                 Len(str))

\* Array.prototype.includes
includes(array, x) == \E i \in DOMAIN array : array[i] = x

\* Uploader.validFileType: "TypeError" when the array it reads is undefined.
\* src/cropper.js reads this.allowedTypes, which no constructor sets;
\* src/unnamed/part_000 reads this.types.
validFileType(b, ts, filename) ==
  LET extension == toLowerCase(splitPop(filename))
  IN IF b = "v1" THEN "TypeError"
     ELSE IF includes(ts, extension) THEN "valid" ELSE "invalid"

\* a promise: resolve and reject settle it only while it is pending
Pending == [state |-> "pending", value |-> << >>]
resolve(p, v) ==
  IF p.state = "pending" THEN [state |-> "resolved", value |-> v] ELSE p
reject(p, v) ==
  IF p.state = "pending" THEN [state |-> "rejected", value |-> v] ELSE p

\* the result of FileReader.readAsDataURL for a file of MIME type t
DataURL(t) == <<"d", "a", "t", "a", ":">> \o t \o <<";", "b", "a", "s", "e", "6", "4", ",">>

\* options.types: absent (the default applies) or given
TypeOptions == {<< >>, <<png, jpg>>}
\* MIME types of the files a user can select
slash == <<"/">>
FileTypes == {imagetype \o slash \o png,
              imagetype \o slash \o <<"P", "N", "G">>,
              imagetype \o slash \o gif,
              imagetype \o slash \o <<"b", "m", "p">>,
              png,
              << >>}
\* selections of the file input: none, one file, two files
Selections ==
  {<< >>} \cup {<<t>> : t \in FileTypes}
          \cup {<<t, u>> : t \in {imagetype \o slash \o png}, u \in FileTypes}

UploaderIdle ==
  /\ uploader = [state |-> "none", missing |-> {}]
  /\ types = << >>
  /\ files = << >>
  /\ nlisten = 0
  /\ promise = << >>
  /\ onchange = 0
  /\ reader = [state |-> "EMPTY", file |-> << >>, onload |-> 0]
  /\ uev = [type |-> "init", p |-> 0, outcome |-> "none", pending |-> FALSE]

\* Uploader constructor
UploaderInit ==
  /\ uploader = [state |-> "instance", missing |-> {}]
  /\ \E t \in TypeOptions :
       types = IF t = << >> THEN <<gif, jpg, jpeg, png>> ELSE t
  /\ files = << >>
  /\ nlisten = 0
  /\ promise = << >>
  /\ onchange = 0
  /\ reader = [state |-> "EMPTY", file |-> << >>, onload |-> 0]
  /\ uev = [type |-> "init", p |-> 0, outcome |-> "none", pending |-> FALSE]

\* Uploader.listen(): a new promise, whose handler replaces onchange
Listen ==
  /\ nlisten < MaxListens
  /\ nlisten' = nlisten + 1
  /\ promise' = Append(promise, Pending)
  /\ onchange' = nlisten + 1
  /\ uev' = [type |-> "listen", p |-> nlisten + 1, outcome |-> "none",
             pending |-> TRUE]
  /\ UNCHANGED <<build, cvars, uploader, types, files, reader>>

\* changeOutcome with the test of the file count reduced to "no file"
changeOutcome_firstFile(b, ts, rd, fs) ==
  IF Len(fs) = 0 THEN "count"
  ELSE LET v == validFileType(b, ts, fs[1])
       IN IF v = "TypeError" THEN "TypeError"
          ELSE IF v = "valid"
                 THEN IF rd.state = "LOADING" THEN "InvalidStateError"
                                              ELSE "read"
                 ELSE "ReferenceError"

\* what the onchange handler of listen() does for the selection fs:
\* "count" (reject: not one file), "read" (the read is started),
\* "TypeError" (validFileType reads an undefined array), "InvalidStateError"
\* (readAsDataURL while a read is in progress), "ReferenceError" (the
\* reject that Uploader.fileReaderSetup calls is no parameter of it)
changeOutcome(b, ts, rd, fs) ==
  IF Len(fs) # 1 THEN "count"
  ELSE LET v == validFileType(b, ts, fs[1])
       IN IF v = "TypeError" THEN "TypeError"
          ELSE IF v = "valid"
                 THEN IF rd.state = "LOADING" THEN "InvalidStateError"
                                              ELSE "read"
                 ELSE "ReferenceError"

\* the change event of the file input, the user having selected fs
Change(fs) ==
  /\ files' = fs
  /\ IF onchange = 0
       THEN /\ uev' = [type |-> "change", p |-> 0, outcome |-> "unhandled",
                       pending |-> FALSE]
            /\ UNCHANGED <<promise, reader>>
       ELSE LET o == changeOutcome(build, types, reader, fs)
            IN /\ uev' = [type |-> "change", p |-> onchange, outcome |-> o,
                          pending |-> promise[onchange].state = "pending"]
               /\ promise' = IF o = "count"
                               THEN [promise EXCEPT ![onchange] =
                                       reject(@, "Select only one file.")]
                               ELSE promise
               /\ reader' = IF o = "read"
                              THEN [state |-> "LOADING", file |-> fs[1],
                                    onload |-> onchange]
                              ELSE reader
  /\ UNCHANGED <<build, cvars, uploader, types, nlisten, onchange>>

\* the load event of the FileReader: reader.onload resolves its promise
ReadDone ==
  /\ reader.state = "LOADING"
  /\ reader' = [reader EXCEPT !.state = "DONE"]
  /\ promise' = [promise EXCEPT ![reader.onload] =
                   resolve(@, DataURL(reader.file))]
  /\ uev' = [type |-> "load", p |-> reader.onload, outcome |-> "none",
             pending |-> promise[reader.onload].state = "pending"]
  /\ UNCHANGED <<build, cvars, uploader, types, files, nlisten, onchange>>

\* the error event of the FileReader: no handler is installed for it
ReadError ==
  /\ reader.state = "LOADING"
  /\ reader' = [reader EXCEPT !.state = "DONE"]
  /\ uev' = [type |-> "error", p |-> reader.onload, outcome |-> "none",
             pending |-> promise[reader.onload].state = "pending"]
  /\ UNCHANGED <<build, cvars, uploader, types, files, nlisten, onchange, promise>>

UploaderNext ==
  \/ Listen
  \/ \E fs \in Selections : Change(fs)
  \/ ReadDone
  \/ ReadError

\* the Cropper, constructed and left alone
CropperIdle ==
  /\ crop = [size |-> Dim(Step, Step), tl |-> Pt(0, 0), br |-> Pt(Step, Step)]
  /\ limit = defaultLimit
  /\ editor = [state |-> "instance", missing |-> {}]
  /\ exported = NoContent
  /\ lastEvent = NoEvent
  /\ image = NoImage
  /\ loading = 0
  /\ nloads = 0
  /\ canvas = InitialCanvas
  /\ preview = [width |-> InitialCanvas.width, height |-> InitialCanvas.height,
                content |-> NoContent]
  /\ downListeners = 0
  /\ bound = 0
  /\ moveListeners = {}
  /\ upListeners = {}
  /\ ev = Other
  /\ phase = "idle"
  /\ gesture = [zone |-> FALSE, body |-> FALSE]

UploaderSpecInit ==
  /\ build \in Builds
  /\ UploaderInit
  /\ CropperIdle

\* the Uploader alone
UploaderSpec == UploaderSpecInit /\ [][UploaderNext]_vars

-----------------------------------------------------------------------------
(* Construction: new Uploader(options), new Cropper(options) and the first   *)
(* calls on what they return                                                  *)

\* the options a page passes to new Uploader: the required input may be
\* missing
UploaderOptions == [given : SUBSET {"input"}, types : TypeOptions]
\* the options a page passes to new Cropper: each required option may be
\* missing (in src/cropper.js canvas and preview are selectors, and a missing
\* one is a selector that finds no element)
CropperOptions == [given : SUBSET {"size", "canvas", "preview"},
                   size : TargetSizes, limit : LimitOptions]

\* what the caller of a constructor holds afterwards: "thrown" (the
\* constructor threw, there is no object), "instance", or "partial": the
\* prototype Cropper of src/cropper.js reports to its exception handler and
\* executes "return null", which new ignores, so that the caller receives
\* the object as far as it was initialised
constructed(b, missing) ==
  IF missing = {} THEN "instance"
  ELSE IF b = "v1" THEN "partial" ELSE "thrown"

\* new Uploader(o): the class of both source files throws
NewUploader(o) ==
  /\ uploader.state = "none"
  /\ LET missing == {"input"} \ o.given
     IN /\ uploader' = [state |-> IF missing = {} THEN "instance" ELSE "thrown",
                        missing |-> missing]
        /\ types' = IF missing # {} THEN types
                    ELSE IF o.types = << >> THEN <<gif, jpg, jpeg, png>>
                    ELSE o.types
  /\ UNCHANGED <<build, cvars, files, nlisten, promise, onchange, reader, uev>>

\* new Cropper(o)
NewCropper(o) ==
  /\ editor.state = "none"
  /\ LET missing == {"size", "canvas", "preview"} \ o.given
     IN /\ editor' = [state |-> constructed(build, missing), missing |-> missing]
        /\ IF missing = {}
             THEN /\ crop' = [size |-> o.size, tl |-> Pt(0, 0),
                              br |-> Pt(o.size.width, o.size.height)]
                  /\ limit' = IF build = "v1" \/ o.limit = 0 THEN defaultLimit
                                                              ELSE o.limit
             ELSE UNCHANGED <<crop, limit>>
  /\ UNCHANGED <<build, exported, lastEvent, image, loading, nloads, canvas,
                 preview, downListeners, bound, moveListeners, upListeners,
                 ev, phase, gesture, uvars>>

\* Cropper.export(img): on an object without previewCanvas, toDataURL is
\* called on undefined or null and throws TypeError
Export ==
  /\ exported' = IF editor.state = "partial" THEN exported ELSE preview.content
  /\ ev' = [Other EXCEPT !.type = "export"]
  /\ UNCHANGED <<build, editor, limit, crop, lastEvent, image, loading, nloads,
                 canvas, preview, downListeners, bound, moveListeners,
                 upListeners, phase, gesture, uvars>>

\* nothing constructed yet
NothingConstructed ==
  /\ editor = [state |-> "none", missing |-> {}]
  /\ exported = NoContent
  /\ crop = [size |-> Dim(0, 0), tl |-> Pt(0, 0), br |-> Pt(0, 0)]
  /\ limit = 0
  /\ lastEvent = NoEvent
  /\ image = NoImage
  /\ loading = 0
  /\ nloads = 0
  /\ canvas = InitialCanvas
  /\ preview = [width |-> InitialCanvas.width, height |-> InitialCanvas.height,
                content |-> NoContent]
  /\ downListeners = 0
  /\ bound = 0
  /\ moveListeners = {}
  /\ upListeners = {}
  /\ ev = Other
  /\ phase = "idle"
  /\ gesture = [zone |-> FALSE, body |-> FALSE]

ConstructInit ==
  /\ build \in Builds
  /\ NothingConstructed
  /\ UploaderIdle

\* the calls a page can make on an object it holds
HoldsUploader == uploader.state \in {"instance", "partial"}
HoldsCropper == editor.state \in {"instance", "partial"}

ConstructNext ==
  \/ \E o \in UploaderOptions : NewUploader(o)
  \/ \E o \in CropperOptions : NewCropper(o)
  \/ HoldsUploader /\ Listen
  \/ HoldsCropper /\ \E nat \in ImageSizes : SetImageSource(nat)
  \/ HoldsCropper /\ Export
  \/ ImageLoad
  \/ StaleImageLoad

\* construction and the first calls
ConstructSpec == ConstructInit /\ [][ConstructNext]_vars

-----------------------------------------------------------------------------
(* Display: images larger than the limit, loaded and rendered *)

\* natural sizes of large images: wider than high, within the limit, higher
\* than wide with both sides over the limit, and one whose scaled side is
\* no integer
DisplaySizes == {Dim(1200, 600), Dim(400, 300), Dim(700, 1400), Dim(1000, 333)}
\* options.limit: absent (0, falsy) or 400
DisplayLimits == {0, 400}

\* Cropper constructor, for the sizes above
DisplayInit ==
  /\ build \in Builds
  /\ \E size \in TargetSizes :
       crop = [size |-> size, tl |-> Pt(0, 0),
               br |-> Pt(size.width, size.height)]
  /\ \E l \in (IF build = "v2" THEN DisplayLimits ELSE {0}) :
       limit = IF l = 0 THEN defaultLimit ELSE l
  /\ editor = [state |-> "instance", missing |-> {}]
  /\ exported = NoContent
  /\ lastEvent = NoEvent
  /\ image = NoImage
  /\ loading = 0
  /\ nloads = 0
  /\ canvas = InitialCanvas
  /\ preview = [width |-> InitialCanvas.width, height |-> InitialCanvas.height,
                content |-> NoContent]
  /\ downListeners = 0
  /\ bound = 0
  /\ moveListeners = {}
  /\ upListeners = {}
  /\ ev = Other
  /\ phase = "idle"
  /\ gesture = [zone |-> FALSE, body |-> FALSE]
  /\ UploaderIdle

\* a call of Cropper.render, once setImageSource has set this.image
Render ==
  /\ image.set
  /\ Becomes(render(State, build, limit))
  /\ ev' = [Other EXCEPT !.type = "render"]
  /\ UNCHANGED <<build, editor, exported, limit, loading, nloads, downListeners,
                 bound, moveListeners, upListeners, phase, gesture, uvars>>

DisplayNext ==
  \/ \E nat \in DisplaySizes : SetImageSource(nat)
  \/ ImageLoad
  \/ StaleImageLoad
  \/ Render

DisplaySpec == DisplayInit /\ [][DisplayNext]_vars

-----------------------------------------------------------------------------
(* The Cropper alone: the specification of the gestures *)

Init ==
  /\ build \in Builds
  /\ CropperInit
  /\ UploaderIdle

Next ==
  \/ \E nat \in ImageSizes : SetImageSource(nat)
  \/ ImageLoad
  \/ StaleImageLoad
  \/ \E pos \in Points : MouseDown(pos)
  \/ \E pos \in Points : MouseMove(pos)
  \/ MouseUp

Spec == Init /\ [][Next]_vars

\* the gestures, and the page exporting the result between any two events
ExportNext == Next \/ Export

ExportSpec == Init /\ [][ExportNext]_vars

-----------------------------------------------------------------------------
(* The gestures on a display surface with room to move the rectangle *)

\* the natural size of the image: larger than the target size on both axes
MoveImage == Dim(3 * Step, 2 * Step)
\* the pointer positions: the grid points of that surface
MovePoints == {Pt(i * Step, j * Step) : i \in 0..3, j \in 0..2}

\* Cropper constructor, with the non-square target size and no limit given
MoveInit ==
  /\ build \in Builds
  /\ crop = [size |-> Dim(2 * Step, Step), tl |-> Pt(0, 0),
             br |-> Pt(2 * Step, Step)]
  /\ limit = defaultLimit
  /\ editor = [state |-> "instance", missing |-> {}]
  /\ exported = NoContent
  /\ lastEvent = NoEvent
  /\ image = NoImage
  /\ loading = 0
  /\ nloads = 0
  /\ canvas = InitialCanvas
  /\ preview = [width |-> InitialCanvas.width, height |-> InitialCanvas.height,
                content |-> NoContent]
  /\ downListeners = 0
  /\ bound = 0
  /\ moveListeners = {}
  /\ upListeners = {}
  /\ ev = Other
  /\ phase = "idle"
  /\ gesture = [zone |-> FALSE, body |-> FALSE]
  /\ UploaderIdle

MoveNext ==
  \/ SetImageSource(MoveImage)
  \/ ImageLoad
  \/ StaleImageLoad
  \/ \E pos \in MovePoints : MouseDown(pos)
  \/ \E pos \in MovePoints : MouseMove(pos)
  \/ MouseUp

MoveSpec == MoveInit /\ [][MoveNext]_vars

-----------------------------------------------------------------------------
(* Properties of the Cropper, checked under Spec *)

Width == crop.br.x - crop.tl.x
Height == crop.br.y - crop.tl.y

\* the pointer displacement of a step, as Cropper.drag measures it
StepDx == lastEvent'.position.x - lastEvent.position.x
StepDy == lastEvent'.position.y - lastEvent.position.y
\* the amount of a resize step, as the specification states it
StepAmount == IF Abs(StepDx) > Abs(StepDy) THEN StepDx ELSE StepDy

\* a point lies within [0, width] x [0, height] of the display surface
Within(cv, x, y) == 0 <= x /\ x <= cv.width /\ 0 <= y /\ y <= cv.height

\* C1: once pointer events are handled, the crop rectangle lies within the
\* display surface: 0 <= tl.x, 0 <= tl.y, br.x <= width, br.y <= height.
C1_BoundsInvariant ==
  lastEvent.set =>
    /\ 0 <= crop.tl.x /\ 0 <= crop.tl.y
    /\ crop.br.x <= canvas.width /\ crop.br.y <= canvas.height

\* C2: the crop rectangle's width and height are always positive.
C2_PositiveSize == Width > 0 /\ Height > 0

\* C3: the crop's aspect ratio is that of the target size, width / height =
\* size.width / size.height, stated without the division.
C3_AspectRatioFixed == Width * crop.size.height = Height * crop.size.width

\* C4: a pointer-move of a Resizing or Moving gesture whose candidate
\* corner(s) fall outside the display surface leaves tl and br as they were.
C4_RejectedDeltaChangesNothing ==
  [][(/\ ev'.type = "move"
      /\ \/ /\ ev'.op = "resize"
            /\ ~Within(canvas, crop.br.x + StepAmount, crop.br.y + StepAmount)
         \/ /\ ev'.op = "move"
            /\ \E cx \in {crop.tl.x, crop.br.x}, cy \in {crop.tl.y, crop.br.y} :
                 ~Within(canvas, cx + StepDx, cy + StepDy))
     => (crop'.tl = crop.tl /\ crop'.br = crop.br)]_vars

\* a pointer-move of a Resizing gesture has been rejected
C4_Witness == ev.type = "move" /\ ev.op = "resize" /\ ~ev.applied

\* C5: a pointer-move (dx, dy) of a Resizing gesture either is dropped or
\* changes the width and the height by the same amount, dx if |dx| > |dy| and
\* dy otherwise (also when |dx| = |dy|), and leaves tl alone.
C5_ResizeStep ==
  [][(ev'.type = "move" /\ ev'.op = "resize")
     => \/ crop' = crop
        \/ /\ Width' - Width = StepAmount
           /\ Height' - Height = StepAmount
           /\ crop'.tl = crop.tl]_vars

\* a resize has been applied and the rectangle is no longer of the target size
C5_Witness ==
  /\ ev.type = "move" /\ ev.op = "resize" /\ ev.applied
  /\ Width # crop.size.width

\* C6: when the pointer-down point lay both in the handle zone and in the
\* rectangle body, a pointer-move is dispatched to resize, never to move.
C6_HitTestPrecedence ==
  (ev.type = "move" /\ ev.op # "unhandled" /\ gesture.zone /\ gesture.body)
    => ev.op = "resize"

\* a pointer-move after a pointer-down in both zones has resized the rectangle
C6_Witness ==
  /\ ev.type = "move" /\ ev.op = "resize" /\ ev.applied
  /\ gesture.zone /\ gesture.body

\* C7: after a pointer-up that followed a pointer-down, and until the next
\* pointer-down, no pointer-move changes tl, br or the recorded last position.
C7_PointerUpEndsGesture ==
  [][(phase = "up" /\ ev'.type = "move")
     => (crop' = crop /\ lastEvent' = lastEvent)]_vars

\* C15: between the first setImageSource(source) and the load event of its
\* image no render of the display and preview surfaces has happened, no
\* pointer-down listener is installed and no gesture has started.
C15_NothingBeforeLoad ==
  (nloads = 1 /\ image.state = "loading")
    => /\ canvas = InitialCanvas
       /\ preview.content = NoContent
       /\ downListeners = 0
       /\ ~lastEvent.set

\* C16: what export(img) gives the img element of a loaded image is the
\* region [tl, br] of the current display surface, scaled to the target size:
\* the preview surface it reads was recomputed after the last change of the
\* rectangle.
C16_ExportFidelity ==
  (ev.type = "export" /\ image.state = "loaded")
    => /\ exported = [kind |-> "crop", tl |-> crop.tl, br |-> crop.br,
                      surface |-> canvas]
       /\ preview.width = crop.size.width
       /\ preview.height = crop.size.height

\* C18: at most one image decode is live per Cropper: the load event of an
\* Image that a later setImageSource has replaced has no effect, it renders
\* nothing and registers no listener.
C18_NoConcurrentDecodes ==
  [][(loading' < loading)
     => /\ canvas' = canvas /\ preview' = preview /\ image' = image
        /\ downListeners' = downListeners /\ bound' = bound]_vars

\* the operation that the hit tests at the pointer-down point select
GestureMode ==
  IF gesture.zone THEN "resize" ELSE IF gesture.body THEN "move" ELSE "none"

\* C19: the resizing and moving flags are those of the hit tests at the last
\* handled pointer-down, whatever pointer-moves have followed, and every
\* handled pointer-move is dispatched to the operation they select.
C19_GestureModeDecidedOnce ==
  /\ lastEvent.set
       => (lastEvent.resizing = gesture.zone /\ lastEvent.moving = gesture.body)
  /\ (ev.type = "move" /\ ev.op # "unhandled") => ev.op = GestureMode

\* a pointer-move of a Resizing gesture has been applied, and the pointer is
\* now outside the handle zone of the resized rectangle
C19_Witness ==
  /\ ev.type = "move" /\ ev.op = "resize" /\ ev.applied
  /\ lastEvent.resizing
  /\ ~isResizing(crop, lastEvent.position)

\* C20: when the pointer-down point was neither in the handle zone nor in
\* the rectangle body, no pointer-move of the gesture changes tl or br.
C20_IdleGesture ==
  [][(phase = "down" /\ ~gesture.zone /\ ~gesture.body /\ ev'.type = "move")
     => (crop'.tl = crop.tl /\ crop'.br = crop.br)]_vars

\* a pointer-move of a gesture that started outside both zones was handled
C20_Witness ==
  /\ phase = "down" /\ ~gesture.zone /\ ~gesture.body
  /\ ev.type = "move" /\ ev.op = "none"
  /\ isMoving(crop, lastEvent.position)

\* the surfaces are as a render of the current state leaves them: the display
\* surface has the size of the image, and the preview surface holds the
\* region [tl, br] of it at the target size (preview stops at its
\* getImageData or drawImage when the rectangle or the display surface has a
\* side of length zero)
Rendered ==
  /\ canvas = Dim(image.width, image.height)
  /\ (Width # 0 /\ Height # 0 /\ canvas.width # 0 /\ canvas.height # 0)
       => preview = [width |-> crop.size.width, height |-> crop.size.height,
                     content |-> [kind |-> "crop", tl |-> crop.tl,
                                  br |-> crop.br, surface |-> canvas]]

\* the displacement of a handled pointer-move from the recorded last position
MoveDx == ev'.pos.x - lastEvent.position.x
MoveDy == ev'.pos.y - lastEvent.position.y
MoveAmount == IF Abs(MoveDx) > Abs(MoveDy) THEN MoveDx ELSE MoveDy

\* C21: every handled pointer-move, applied or rejected, ends with the
\* recorded last position equal to the pointer position and with the surfaces
\* rendered; its delta is measured from the position recorded by the
\* preceding pointer event, and it is applied whenever its candidate is in
\* bounds, also after a rejected one.  Checked under MoveSpec, where both
\* resize and move deltas are applied and rejected.
C21_MoveUpdatesPositionAndRenders ==
  [][(ev'.type = "move" /\ ev'.op # "unhandled")
     => /\ lastEvent'.position = ev'.pos
        /\ Rendered'
        /\ (ev'.op = "resize"
              /\ Within(canvas, crop.br.x + MoveAmount, crop.br.y + MoveAmount))
             => /\ crop'.br = Pt(crop.br.x + MoveAmount, crop.br.y + MoveAmount)
                /\ crop'.tl = crop.tl
        /\ (ev'.op = "move"
              /\ \A cx \in {crop.tl.x, crop.br.x}, cy \in {crop.tl.y, crop.br.y} :
                   Within(canvas, cx + MoveDx, cy + MoveDy))
             => /\ crop'.tl = Pt(crop.tl.x + MoveDx, crop.tl.y + MoveDy)
                /\ crop'.br = Pt(crop.br.x + MoveDx, crop.br.y + MoveDy)]_vars

\* a pointer-move of a Moving gesture was rejected; the recorded last
\* position is the pointer position, outside the rectangle, and the surfaces
\* are rendered
C21_Witness ==
  /\ ev.type = "move" /\ ev.op = "move" /\ ~ev.applied
  /\ lastEvent.position = ev.pos
  /\ ~isMoving(crop, lastEvent.position)
  /\ Rendered
  /\ preview.content.kind = "crop"

\* C22: whatever image loads were handled during a gesture, after its
\* pointer-up no drag or pointer-up listener is left attached, and the
\* re-runs of readyEditor leave one pointer-down handler, not several.
C22_LoadDuringGesture ==
  /\ phase = "up" => (moveListeners = {} /\ upListeners = {})
  /\ downListeners <= 1

\* C23: a handled pointer-move of a Moving gesture is dropped or adds the
\* same (dx, dy) to tl and to br, so that the width and the height stay as
\* they are; a pointer-move of a Resizing gesture leaves tl alone; only a
\* Resizing gesture changes the size.  Checked under MoveSpec.
C23_MoveIsTranslation ==
  [][(ev'.type = "move")
     => /\ ev'.op = "move"
             => /\ Width' = Width /\ Height' = Height
                /\ \/ crop' = crop
                   \/ /\ crop'.tl = Pt(crop.tl.x + MoveDx, crop.tl.y + MoveDy)
                      /\ crop'.br = Pt(crop.br.x + MoveDx, crop.br.y + MoveDy)
        /\ ev'.op = "resize" => crop'.tl = crop.tl
        /\ ev'.op # "resize" => (Width' = Width /\ Height' = Height)]_vars

\* a pointer-move of a Moving gesture has translated the rectangle away from
\* the origin, on both axes or on one
C23_Witness ==
  /\ ev.type = "move" /\ ev.op = "move" /\ ev.applied
  /\ crop.tl # Pt(0, 0)
  /\ Width = crop.size.width /\ Height = crop.size.height

-----------------------------------------------------------------------------
(* Properties of the Uploader, checked under UploaderSpec *)

\* the lower-cased part of the MIME type t after '/' is an allowed type
TypeAllowed(t) == \E i \in DOMAIN types : types[i] = toLowerCase(splitPop(t))

\* the change event was handled for a promise that was pending
ChangeHandled == uev.type = "change" /\ uev.p # 0 /\ uev.pending

\* C8: once a change event has been handled, the promise of listen() is
\* settled, or a read is under way whose completion resolves it; and the
\* completion of the read resolves it.
C8_OneSettlementPerListen ==
  /\ ChangeHandled =>
       \/ promise[uev.p].state # "pending"
       \/ reader.state = "LOADING" /\ reader.onload = uev.p
  /\ (uev.type = "load" /\ uev.pending) => promise[uev.p].state = "resolved"

\* C9: one file of a type that is not allowed: the promise is rejected and
\* no read is started.
C9_DisallowedTypeRejects ==
  (ChangeHandled /\ Len(files) = 1 /\ ~TypeAllowed(files[1]))
    => (promise[uev.p].state = "rejected" /\ uev.outcome # "read")

\* C10: one file of an allowed type, the reader being free: a read of the
\* file is started, and its completion resolves the promise with the data URI.
C10_AllowedTypeResolves ==
  /\ (ChangeHandled /\ Len(files) = 1 /\ TypeAllowed(files[1])
        /\ uev.outcome # "InvalidStateError")
       => (reader.state = "LOADING" /\ reader.file = files[1]
             /\ reader.onload = uev.p)
  /\ (uev.type = "load" /\ uev.pending)
       => promise[uev.p] = [state |-> "resolved", value |-> DataURL(reader.file)]

\* C11: a change event with no file or with two or more files rejects the
\* promise of listen() (if it is still pending; a settled promise stays as it
\* is) and starts no read, whatever the types of the files.
C11_SingleFileConstraint ==
  (uev.type = "change" /\ uev.p # 0 /\ Len(files) # 1)
    => /\ uev.outcome = "count"
       /\ uev.pending => promise[uev.p].state = "rejected"
       /\ ~uev.pending => promise[uev.p].state # "pending"

\* two files of an allowed type were selected and the pending promise is
\* rejected
C11_Witness ==
  /\ uev.type = "change" /\ uev.pending /\ Len(files) = 2
  /\ TypeAllowed(files[1]) /\ TypeAllowed(files[2])
  /\ promise[uev.p].state = "rejected"

\* C17: after the promise of a listen() has been rejected, the next change
\* event handled for the promise of a fresh listen() settles it, or starts
\* the read whose completion resolves it.
C17_RetryByRelistening ==
  \A k \in 2..Len(promise) :
    (promise[k - 1].state = "rejected" /\ ChangeHandled /\ uev.p = k)
      => \/ promise[k].state # "pending"
         \/ reader.state = "LOADING" /\ reader.onload = k

-----------------------------------------------------------------------------
(* Properties of construction, checked under ConstructSpec *)

\* C12: constructing an Uploader without input, or a Cropper without size,
\* canvas or preview, fails synchronously: the constructor throws, the caller
\* holds no object, and so no setImageSource, listen or export is ever
\* carried out on one.
C12_ConfigurationErrorsFatal ==
  /\ (uploader.state # "none" /\ uploader.missing # {})
       => (uploader.state = "thrown" /\ nlisten = 0)
  /\ (editor.state # "none" /\ editor.missing # {})
       => (editor.state = "thrown" /\ nloads = 0)

-----------------------------------------------------------------------------
(* Properties of the display pipeline, checked under DisplaySpec *)

\* the size the specification gives the display surface for a source image
\* of size nat and the limit L (the scaled side truncated to an integer)
Downscaled(nat, L) ==
  IF nat.width <= L /\ nat.height <= L THEN nat
  ELSE IF nat.width >= nat.height
    THEN Dim(L, (nat.height * L) \div nat.width)
    ELSE Dim((nat.width * L) \div nat.height, L)

\* C13: once the image is loaded and rendered, the display surface has the
\* size of the image if no side exceeds the limit, and otherwise its longer
\* side is the limit and its shorter side is scaled by the same factor.
C13_DownscaleCorrect ==
  image.state = "loaded"
    => canvas = Downscaled(image.nat, sideLimit(build, limit))

\* C14: a render() that follows a render leaves the image dimensions, the
\* display surface, the preview surface's dimensions and the crop rectangle
\* as they were.
C14_RenderIdempotent ==
  [][(image.state = "loaded" /\ ev'.type = "render")
     => /\ image'.width = image.width /\ image'.height = image.height
        /\ canvas' = canvas
        /\ preview'.width = preview.width /\ preview'.height = preview.height
        /\ crop' = crop]_vars

=============================================================================
